---- MODULE Spec2Model ----
(***************************************************************************)
(* A model of the kafkaclient consumers (src/kafkago_consumer.go):         *)
(*                                                                         *)
(*   - kafkagoConsumer: the generation-based coordinator (startConsume),   *)
(*     the per-topic fan-out (consumeTopic), the per-partition message     *)
(*     loop started through gen.Start, and commitOffset;                   *)
(*   - saramaConsumer: the session-based coordinator (startConsume, its    *)
(*     driver goroutine, Setup, ConsumeClaim, close).                      *)
(*                                                                         *)
(*   - saramaProducer: newSaramaProducer, handleAsyncResponses,            *)
(*     produceMessage and getSaramaEncoder.                                *)
(*                                                                         *)
(* The host application runs one of the components; Init chooses which.    *)
(* The broker, the client libraries, the message processor and the         *)
(* receiver of the failed-message channel are the environment: every       *)
(* outcome they can produce is a nondeterministic choice.                  *)
(***************************************************************************)
EXTENDS Integers, Sequences, FiniteSets, TLC

\* ------------------------------------------------------------------ bounds

\* Every partition's log holds the records at offsets 0..MaxOffset.
MaxOffset == 1

\* --------------------------------------------------------- configuration

\* c.topicNames: the topics the consumer subscribes to, in order.
topicNames == <<"orders", "audit">>

\* c.topicConfig[topic].FailedProcessingTopic ("" when none is configured).
FailedProcessingTopic(topic) ==
    IF topic = "orders" THEN "orders-failed" ELSE ""

\* The partitions the group assigns to this member, per topic.
AssignedPartitions(topic) == <<0>>

Offsets == 0..MaxOffset

TopicSet == {topicNames[i] : i \in 1..Len(topicNames)}

Partitions ==
    UNION {{<<t, AssignedPartitions(t)[j]>> :
              j \in 1..Len(AssignedPartitions(t))} : t \in TopicSet}

VARIABLES
    backend,       \* "kafkago" | "sarama" | "producer": the component the
                   \* host runs
    configured,    \* the topics that have a complete entry in the topic
                   \* configuration (a name and a codec)
    recv,          \* receiver of c.failMessages: is it blocked in a receive,
                   \* and the failedMessage it got and is handling (if any)
    \* --- kafkagoConsumer
    cpc,           \* startConsume's position: "next" | "backoff" | "spawn" | "wait"
    spawnIdx,      \* index into topicNames of the next `go c.consumeTopic(t)`
    consumerWait,  \* c.consumerWait: the WaitGroup's counter
    tpc,           \* the consumeTopic goroutines, one per `go` statement
    gen,           \* c.gen: "nil", or "latest": the handle of the group's
                   \* latest generation
    assign,        \* c.gen.Assignments: topic -> sequence of [ID, Offset]
    genClosed,     \* the group has no open generation: none yet, or the
                   \* latest one is closed (its context is done)
    loops,         \* <<topic, partition>> -> the functions gen.Start was given
                   \* for it (the partition message loops), in start order
    committed,     \* broker side: <<topic, partition>> -> committed offset
    \* --- saramaConsumer
    mpc,           \* startConsume's position
    dpc,           \* the driver goroutine's position
    ctxDone,       \* c.ctx is cancelled
    readyClosed,   \* the channel c.ready refers to is closed
    awaited,       \* the channel startConsume's `<-c.ready` waits on: "none"
                   \* (not evaluated yet, or received), "current" (the one
                   \* c.ready refers to), "staleOpen" / "staleClosed" (one
                   \* c.ready no longer refers to)
    sessEnded,     \* the running session was ended by the group (a rebalance)
    claims,        \* <<topic, partition>> -> the ConsumeClaim goroutine: its
                   \* position (pc), the offset of the next message (pos),
                   \* whether the session was already done when it last
                   \* entered its select (late), and whether a message of
                   \* the claim failed and was not handed to the fail
                   \* handler (dropped)
    marked,        \* <<topic, partition>> -> the next offset, after the marks
    released,      \* how many times group.Close has been called
    \* --- saramaProducer
    prod           \* the producer, its response goroutine and the latest
                   \* produceMessage call

kvars == <<cpc, spawnIdx, consumerWait, tpc, gen, assign, genClosed,
           loops, committed>>

svars == <<mpc, dpc, ctxDone, readyClosed, awaited, sessEnded, claims,
           marked, released>>

vars == <<backend, configured, recv, kvars, svars, prod>>

\* ------------------------------------------------- failed-message channel

\* newFailedMessage(m, conf.FailedProcessingTopic, e)
newFailedMessage(topic, partition, offset, dest) ==
    [dest |-> dest, topic |-> topic, partition |-> partition, offset |-> offset]

\* Mutant of SendOutcomes: a plain send `c.failMessages <- fm`, which waits
\* for a receiver.
SendBlocking(receiver) ==
    IF receiver.waiting THEN {"sent"} ELSE {}

\* select { case c.failMessages <- fm: ... default: ... } on the unbuffered
\* channel of make(chan failedMessage): the send case is ready only while a
\* receiver is blocked in a receive, otherwise the default case runs.
SendOutcomes(receiver) ==
    IF receiver.waiting THEN {"sent"} ELSE {"dropped"}

\* Mutant of ForwardOutcomes: the hand-off is made whatever the topic's
\* configuration.
ForwardAlways(topic, receiver) == SendOutcomes(receiver)

\* if conf.FailedProcessingTopic != "" { select ... }: the outcomes of the
\* hand-off for a message of `topic`.
ForwardOutcomes(topic, receiver) ==
    IF FailedProcessingTopic(topic) # ""
    THEN SendOutcomes(receiver)
    ELSE {"none"}

\* The receiver of c.failMessages blocks in a receive.
ReceiverReady ==
    /\ ~recv.waiting
    /\ recv' = [waiting |-> TRUE, got |-> << >>]
    /\ UNCHANGED <<backend, configured, prod, kvars, svars>>

\* The receiver of c.failMessages stops waiting.
ReceiverLeave ==
    /\ recv.waiting
    /\ recv' = [waiting |-> FALSE, got |-> << >>]
    /\ UNCHANGED <<backend, configured, prod, kvars, svars>>

\* ------------------------------------------------------- kafkagoConsumer

KafkaInit ==
    /\ cpc = "next"
    /\ spawnIdx = 1
    /\ consumerWait = 0
    /\ tpc = [n \in 1..Len(topicNames) |-> [pc |-> "idle", topic |-> "", i |-> 1]]
    /\ gen = "nil"
    /\ assign = [t \in TopicSet |-> << >>]
    /\ genClosed = TRUE
    /\ loops = [tp \in Partitions |-> << >>]
    /\ committed = [tp \in Partitions |-> 0]

Running(l) == l.pc # "done"

\* The loops of partition tp that have not returned.
RunningLoops(tp) == {j \in 1..Len(loops[tp]) : Running(loops[tp][j])}

\* Mutant of LibNextReady: group.Next returns while functions of the latest
\* generation run.
LibNextAnytime == TRUE

\* The group's run loop is between generations: the latest generation is
\* closed and every function it accounts for (gen.Start before the close)
\* has returned. Only then does group.Next deliver a generation or an error.
LibNextReady ==
    /\ genClosed
    /\ \A tp \in Partitions : \A j \in RunningLoops(tp) : ~loops[tp][j].acct

\* gen.Assignments of a new generation: each assigned partition with the
\* offset committed for it.
NewAssignments ==
    [t \in TopicSet |->
        [j \in 1..Len(AssignedPartitions(t)) |->
            [ID |-> AssignedPartitions(t)[j],
             Offset |-> committed[<<t, AssignedPartitions(t)[j]>>]]]]

\* c.consumerWait.Add(len(c.topicNames))
WaitGroupAdd == Len(topicNames)

\* c.gen, e = c.group.Next(ctx) with e == nil, then c.consumerWait.Add.
\* The records of the loops that have returned are dropped.
StartConsumeNext ==
    /\ backend = "kafkago"
    /\ cpc = "next"
    /\ LibNextReady
    /\ gen' = "latest"
    /\ genClosed' = FALSE
    /\ assign' = NewAssignments
    /\ loops' = [tp \in Partitions |-> SelectSeq(loops[tp], Running)]
    /\ consumerWait' = consumerWait + WaitGroupAdd
    /\ spawnIdx' = 1
    /\ cpc' = "spawn"
    /\ UNCHANGED svars /\ UNCHANGED <<backend, configured, prod, recv, tpc, committed>>

\* Mutant of AfterNextErr: a failed group.Next ends startConsume.
AfterNextErrFatal == "stopped"

\* if e != nil { lg.Error(...); time.Sleep(...); continue }: where
\* startConsume goes after a failed group.Next.
AfterNextErr == "backoff"

\* c.gen, e = c.group.Next(ctx) with e != nil: c.gen is nil, then the sleep.
StartConsumeNextErr ==
    /\ backend = "kafkago"
    /\ cpc = "next"
    /\ LibNextReady
    /\ gen' = "nil"
    /\ cpc' = AfterNextErr
    /\ UNCHANGED svars /\ UNCHANGED <<backend, configured, prod, recv, spawnIdx, consumerWait, tpc, assign,
                   genClosed, loops, committed>>

\* time.Sleep(5 * time.Second); continue
StartConsumeBackoff ==
    /\ backend = "kafkago"
    /\ cpc = "backoff"
    /\ cpc' = "next"
    /\ UNCHANGED svars /\ UNCHANGED <<backend, configured, prod, recv, spawnIdx, consumerWait, tpc, gen, assign,
                   genClosed, loops, committed>>

\* Mutant of SpawnTopic: every goroutine is given the first topic.
SpawnTopicFirst(idx) == topicNames[1]

\* for _, t := range c.topicNames: the topic of the idx-th iteration.
SpawnTopic(idx) == topicNames[idx]

\* for _, t := range c.topicNames { go c.consumeTopic(t) }: one goroutine.
StartConsumeSpawn ==
    /\ backend = "kafkago"
    /\ cpc = "spawn"
    /\ tpc' = [tpc EXCEPT ![spawnIdx] =
                  [pc |-> "run", topic |-> SpawnTopic(spawnIdx), i |-> 1]]
    /\ spawnIdx' = spawnIdx + 1
    /\ cpc' = IF spawnIdx = Len(topicNames) THEN "wait" ELSE "spawn"
    /\ UNCHANGED svars /\ UNCHANGED <<backend, configured, prod, recv, consumerWait, gen, assign,
                   genClosed, loops, committed>>

\* The assignments without their offsets.
StartedAssignments ==
    [t \in TopicSet |->
        [j \in 1..Len(assign[t]) |-> [ID |-> assign[t][j].ID, Offset |-> 0]]]

\* c.consumerWait.Wait() returns once the counter is zero. Only consumeTopic
\* reads the offsets of the assignments, and every consumeTopic has
\* returned: the model forgets them here.
StartConsumeWait ==
    /\ backend = "kafkago"
    /\ cpc = "wait"
    /\ consumerWait = 0
    /\ cpc' = "next"
    /\ assign' = StartedAssignments
    /\ UNCHANGED svars /\ UNCHANGED <<backend, configured, prod, recv, spawnIdx, consumerWait, tpc, gen,
                   genClosed, loops, committed>>

\* The function gen.Start launches for one assignment. Program state: the
\* closure's offset, its reader's position (rpos), its position in the code
\* (pc) and, inside commitOffset, the failed attempt made so far (log).
\* acct: the generation accounts for it (it was started before the
\* generation closed). Every function still running was started under the
\* latest generation: group.Next returns only when the accounted ones have
\* returned, and the others return at their first read.
\* History of the loop, for the properties:
\*   fate  - of the latest message: "ok" (processor returned nil, or nothing
\*           read yet), "failed" (processor returned an error), then
\*           "rewound" (reader.SetOffset was called for it);
\*   dirty - a processor call has failed, or a commitOffset call has
\*           returned without committing;
\*   okseq - the offsets processed, in order, while the loop is not dirty.
NewLoop(a, accounted) ==
    [acct |-> accounted, pc |-> "read", offset |-> a.Offset,
     rpos |-> a.Offset, log |-> << >>, fate |-> "ok", dirty |-> FALSE,
     okseq |-> << >>]

\* Mutant of ExitedLoop: the loop goes on as after a successful read.
ContinuedLoop(l) == [l EXCEPT !.pc = "commitCur"]

\* A loop that has returned: its locals and its history are gone.
ExitedLoop(l) ==
    [acct |-> l.acct, pc |-> "done", offset |-> 0,
     rpos |-> 0, log |-> << >>, fate |-> "ok", dirty |-> FALSE,
     okseq |-> << >>]

\* assignments := c.gen.Assignments[topic]
TopicAssignments(topic) == assign[topic]

\* consumeTopic, one iteration of `for _, assignment := range assignments`:
\* c.gen.Start(func ...). A generation that is already closed runs the
\* function without accounting for it and with a context that is done: its
\* first reader.ReadMessage(ctx) returns the context's error and it returns,
\* having touched nothing shared (taken here together with its start).
ConsumeTopicStart(n) ==
    /\ backend = "kafkago"
    /\ tpc[n].pc = "run"
    /\ tpc[n].i <= Len(TopicAssignments(tpc[n].topic))
    /\ LET a == TopicAssignments(tpc[n].topic)[tpc[n].i]
           tp == <<tpc[n].topic, a.ID>>
           l == NewLoop(a, ~genClosed)
       IN loops' = [loops EXCEPT ![tp] =
                       Append(@, IF genClosed THEN ExitedLoop(l) ELSE l)]
    /\ tpc' = [tpc EXCEPT ![n].i = @ + 1]
    /\ UNCHANGED svars /\ UNCHANGED <<backend, configured, prod, recv, cpc, spawnIdx, consumerWait, gen, assign,
                   genClosed, committed>>

\* consumeTopic returns: defer c.consumerWait.Done()
ConsumeTopicDone(n) ==
    /\ backend = "kafkago"
    /\ tpc[n].pc = "run"
    /\ tpc[n].i > Len(TopicAssignments(tpc[n].topic))
    /\ tpc' = [tpc EXCEPT ![n] = [pc |-> "idle", topic |-> "", i |-> 1]]
    /\ consumerWait' = consumerWait - 1
    /\ UNCHANGED svars /\ UNCHANGED <<backend, configured, prod, recv, cpc, spawnIdx, gen, assign,
                   genClosed, loops, committed>>

\* The group rebalances (a member joins or leaves, a heartbeat fails): the
\* latest generation is closed.
GenerationEnd ==
    /\ backend = "kafkago"
    /\ ~genClosed
    /\ genClosed' = TRUE
    /\ UNCHANGED svars /\ UNCHANGED <<backend, configured, prod, recv, cpc, spawnIdx, consumerWait, tpc, gen,
                   assign, loops, committed>>

\* msg, e := reader.ReadMessage(ctx) with e != nil: return (reader.Close()).
\* A function the generation accounts for closes the generation on exit.
LoopReadError(tp, j) ==
    /\ backend = "kafkago"
    /\ j \in 1..Len(loops[tp])
    /\ loops[tp][j].pc = "read"
    /\ loops' = [loops EXCEPT ![tp][j] = ExitedLoop(@)]
    /\ genClosed' = TRUE
    /\ UNCHANGED svars /\ UNCHANGED <<backend, configured, prod, recv, cpc, spawnIdx, consumerWait, tpc, gen,
                   assign, committed>>

\* Mutant of ResetPosition: the reader is left after the failed record.
ResetPositionNext(offset) == offset + 1

\* reader.SetOffset(offset) after a failure: the position the reader is
\* told to read from next.
ResetPosition(offset) == offset

\* msg, e := reader.ReadMessage(ctx) with e == nil; offset = msg.Offset;
\* e = conf.MessageProcessor(ctx, c.procDependencies, m), which returns nil
\* (ok) or an error.
LoopReadProcess(tp, j, ok) ==
    /\ backend = "kafkago"
    /\ j \in 1..Len(loops[tp])
    /\ loops[tp][j].pc = "read"
    /\ loops[tp][j].rpos \in Offsets
    /\ LET l == loops[tp][j]
           k == l.rpos
       IN loops' = [loops EXCEPT ![tp][j] =
             [l EXCEPT !.offset = k,
                       !.rpos = k + 1,
                       !.pc = IF ok THEN "commitCur" ELSE "failed",
                       !.fate = IF ok THEN "ok" ELSE "failed",
                       !.dirty = @ \/ ~ok,
                       !.okseq = IF ok /\ ~l.dirty THEN Append(@, k) ELSE << >>]]
    /\ UNCHANGED svars /\ UNCHANGED <<backend, configured, prod, recv, cpc, spawnIdx, consumerWait, tpc, gen,
                   assign, genClosed, committed>>

\* if e != nil { if conf.FailedProcessingTopic != "" { select ... } ;
\* e = reader.SetOffset(offset) ... : the hand-off to the fail handler and
\* the reset of the read position. SetOffset fails only on a closed reader
\* or a reader with a group id; this reader (c.reader) has no group id and
\* is closed only when the function returns, so the reset succeeds.
LoopFailed(tp, j) ==
    /\ backend = "kafkago"
    /\ j \in 1..Len(loops[tp])
    /\ loops[tp][j].pc = "failed"
    /\ LET l == loops[tp][j] IN
       \E out \in ForwardOutcomes(tp[1], recv) :
          /\ recv' = IF out = "sent"
                     THEN [waiting |-> FALSE,
                           got |-> <<newFailedMessage(tp[1], tp[2], l.offset,
                                        FailedProcessingTopic(tp[1]))>>]
                     ELSE recv
          /\ loops' = [loops EXCEPT ![tp][j] =
                [l EXCEPT !.pc = "commitPrev",
                          !.rpos = ResetPosition(l.offset),
                          !.fate = "rewound"]]
    /\ UNCHANGED svars /\ UNCHANGED <<backend, configured, prod, cpc, spawnIdx, consumerWait, tpc, gen, assign,
                   genClosed, committed>>

\* Mutant of CommitArg: the loop always commits the offset before the
\* message's.
CommitArgPrev(pc, offset) == offset - 1

\* The offset argument of the commitOffset call the loop is in:
\* c.commitOffset(topic, partition, offset-1) inside `if e != nil`, and
\* c.commitOffset(topic, partition, offset) after it.
CommitArg(pc, offset) ==
    IF pc = "commitPrev" THEN offset - 1 ELSE offset

\* Mutant of ShouldRetry: commitOffset retries until an attempt succeeds.
ShouldRetryUntilOk(log) == ~log[Len(log)].ok

\* commitOffset: after the attempts in `log`, is another attempt made?
\* `if e != nil { ...retry... }`: only after a failed first attempt.
ShouldRetry(log) == Len(log) = 1 /\ ~log[1].ok

\* commitOffset's retry repeats the call with the same offset.
RetryOffset(first) == first

\* Where the loop goes when a commitOffset call has returned.
AfterCommit(pc) == IF pc = "commitPrev" THEN "commitCur" ELSE "read"

\* One c.gen.CommitOffsets(map[string]map[int]int64{topic: {partition:
\* offset}}) of commitOffset, the first or the retry; it succeeds or fails.
LoopCommit(tp, j, ok) ==
    /\ backend = "kafkago"
    /\ j \in 1..Len(loops[tp])
    /\ loops[tp][j].pc \in {"commitPrev", "commitCur"}
    /\ gen # "nil"
    /\ LET l == loops[tp][j]
           off == IF l.log = << >> THEN CommitArg(l.pc, l.offset)
                                   ELSE RetryOffset(l.log[1].offset)
           log2 == Append(l.log, [topic |-> tp[1], partition |-> tp[2],
                                  offset |-> off, ok |-> ok])
           again == ShouldRetry(log2)
       IN /\ loops' = [loops EXCEPT ![tp][j] =
                [l EXCEPT !.log = IF again THEN log2 ELSE << >>,
                          !.dirty = @ \/ (~again /\ ~ok),
                          !.okseq = IF ~again /\ ~ok THEN << >> ELSE @,
                          !.pc = IF again THEN @ ELSE AfterCommit(@)]]
          /\ committed' = IF ok THEN [committed EXCEPT ![tp] = off]
                                ELSE committed
    /\ UNCHANGED svars /\ UNCHANGED <<backend, configured, prod, recv, cpc, spawnIdx, consumerWait, tpc, gen,
                   assign, genClosed>>

KafkaNext ==
    \/ StartConsumeNext
    \/ StartConsumeNextErr
    \/ StartConsumeBackoff
    \/ StartConsumeSpawn
    \/ StartConsumeWait
    \/ \E n \in 1..Len(topicNames) : ConsumeTopicStart(n)
    \/ \E n \in 1..Len(topicNames) : ConsumeTopicDone(n)
    \/ GenerationEnd
    \/ \E tp \in Partitions : \E j \in 1..Len(loops[tp]) : LoopReadError(tp, j)
    \/ \E tp \in Partitions : \E j \in 1..Len(loops[tp]), ok \in BOOLEAN :
          LoopReadProcess(tp, j, ok)
    \/ \E tp \in Partitions : \E j \in 1..Len(loops[tp]) : LoopFailed(tp, j)
    \/ \E tp \in Partitions : \E j \in 1..Len(loops[tp]), ok \in BOOLEAN :
          LoopCommit(tp, j, ok)

\* -------------------------------------------------------- saramaConsumer

SaramaInit ==
    /\ mpc = "start"
    /\ dpc = "idle"
    /\ ctxDone = FALSE
    /\ readyClosed = FALSE
    /\ awaited = "none"
    /\ sessEnded = FALSE
    /\ claims = [tp \in Partitions |-> [pc |-> "none", pos |-> 0, late |-> FALSE, dropped |-> FALSE]]
    /\ marked = [tp \in Partitions |-> 0]
    /\ released = 0

\* The process is alive: neither lg.Fatal nor a panic has ended it.
Alive ==
    /\ mpc # "fatal"
    /\ \A tp \in Partitions : claims[tp].pc # "panicked"

\* c.cancel (context.WithCancel in newSaramaConsumer) is called from outside
\* startConsume: the external cancellation signal.
ExternalCancel ==
    /\ backend = "sarama" /\ Alive
    /\ ~ctxDone
    /\ ctxDone' = TRUE
    /\ UNCHANGED <<backend, configured, prod, recv, kvars, mpc, dpc, readyClosed, awaited,
                   sessEnded, claims, marked, released>>

\* startConsume: wg.Add(1); go func() {...}()
SaramaStart ==
    /\ backend = "sarama" /\ Alive
    /\ mpc = "start"
    /\ mpc' = "evalReady"
    /\ dpc' = "consume"
    /\ UNCHANGED <<backend, configured, prod, recv, kvars, ctxDone, readyClosed, awaited,
                   sessEnded, claims, marked, released>>

\* `<-c.ready`: the channel expression is evaluated (a read of c.ready that
\* is not synchronised with the driver's `c.ready = make(chan bool)`).
SaramaEvalReady ==
    /\ backend = "sarama" /\ Alive
    /\ mpc = "evalReady"
    /\ awaited' = "current"
    /\ mpc' = "awaitReady"
    /\ UNCHANGED <<backend, configured, prod, recv, kvars, dpc, ctxDone, readyClosed,
                   sessEnded, claims, marked, released>>

\* The channel startConsume waits on is closed.
AwaitedClosed ==
    \/ awaited = "current" /\ readyClosed
    \/ awaited = "staleClosed"

\* `<-c.ready` returns: the awaited channel is closed.
SaramaAwaitReady ==
    /\ backend = "sarama" /\ Alive
    /\ mpc = "awaitReady"
    /\ AwaitedClosed
    /\ awaited' = "none"
    /\ mpc' = "awaitDone"
    /\ UNCHANGED <<backend, configured, prod, recv, kvars, dpc, ctxDone, readyClosed,
                   sessEnded, claims, marked, released>>

\* select { case <-c.ctx.Done(): ... }; c.cancel()
SaramaAwaitDone ==
    /\ backend = "sarama" /\ Alive
    /\ mpc = "awaitDone"
    /\ ctxDone
    /\ ctxDone' = TRUE
    /\ mpc' = "wgWait"
    /\ UNCHANGED <<backend, configured, prod, recv, kvars, dpc, readyClosed, awaited,
                   sessEnded, claims, marked, released>>

\* Mutant of DriverFinished: startConsume does not wait for the driver.
DriverFinishedNoWait == TRUE

\* wg.Wait() returns when the driver goroutine has run its wg.Done().
DriverFinished == dpc = "done"

\* wg.Wait()
SaramaWgWait ==
    /\ backend = "sarama" /\ Alive
    /\ mpc = "wgWait"
    /\ DriverFinished
    /\ mpc' = "close"
    /\ UNCHANGED <<backend, configured, prod, recv, kvars, dpc, ctxDone, readyClosed, awaited,
                   sessEnded, claims, marked, released>>

\* if e := c.close(); e != nil { lg.Fatal(...) }; return. close calls
\* c.group.Close(), which succeeds (ok) or fails; lg.Fatal ends the process.
SaramaClose(ok) ==
    /\ backend = "sarama" /\ Alive
    /\ mpc = "close"
    /\ released' = released + 1
    /\ mpc' = IF ok THEN "returned" ELSE "fatal"
    /\ UNCHANGED <<backend, configured, prod, recv, kvars, dpc, ctxDone, readyClosed, awaited,
                   sessEnded, claims, marked>>

\* c.group.Consume(c.ctx, c.topicNames, c) returns before a session exists
\* (the join failed, or the context is cancelled): Setup has not run.
DriverConsumeFail ==
    /\ backend = "sarama" /\ Alive
    /\ dpc = "consume"
    /\ dpc' = "check"
    /\ UNCHANGED <<backend, configured, prod, recv, kvars, mpc, ctxDone, readyClosed, awaited,
                   sessEnded, claims, marked, released>>

\* c.group.Consume creates a session: it calls Setup (close(c.ready)), then
\* starts one ConsumeClaim goroutine per claimed partition, each fed from
\* the offset after the partition's last mark.
DriverConsumeSetup ==
    /\ backend = "sarama" /\ Alive
    /\ dpc = "consume"
    /\ readyClosed' = TRUE
    /\ sessEnded' = FALSE
    /\ claims' = [tp \in Partitions |->
                     [pc |-> "select", pos |-> marked[tp], late |-> ctxDone,
                      dropped |-> FALSE]]
    /\ dpc' = "session"
    /\ UNCHANGED <<backend, configured, prod, recv, kvars, mpc, ctxDone, awaited, marked,
                   released>>

\* The group ends the session (a rebalance, a broker error).
SessionEnd ==
    /\ backend = "sarama" /\ Alive
    /\ dpc = "session"
    /\ ~sessEnded
    /\ sessEnded' = TRUE
    /\ UNCHANGED <<backend, configured, prod, recv, kvars, mpc, dpc, ctxDone, readyClosed,
                   awaited, claims, marked, released>>

\* session.Context() is done: the session was ended, or its parent c.ctx
\* is cancelled.
SessionDone == sessEnded \/ ctxDone

\* conf.Name == "" || conf.messageCodec == nil, negated: the topic of the
\* message has a complete configuration.
TopicConfigured(topic) == topic \in configured

\* Mutant of ShouldMark: every message taken from the claim is marked.
ShouldMarkAlways(conf, ok) == TRUE

\* Is session.MarkMessage(msg, "") reached for a message? Only past the
\* `continue` of a missing configuration and past the `continue` of a
\* processor error.
ShouldMark(conf, ok) == conf /\ ok

\* ConsumeClaim: case msg := <-claim.Messages(). Without a configuration
\* for the topic: errTopicConfMissing is logged, continue. Otherwise
\* e = conf.MessageProcessor(...), which returns nil (ok) or an error;
\* on nil: session.MarkMessage(msg, "").
ClaimMessage(tp, ok) ==
    /\ backend = "sarama" /\ Alive
    /\ claims[tp].pc = "select"
    /\ claims[tp].pos \in Offsets
    /\ LET conf == TopicConfigured(tp[1])
           k == claims[tp].pos
       IN /\ claims' = [claims EXCEPT ![tp] =
                [pc |-> IF conf /\ ~ok THEN "failed" ELSE "select",
                 pos |-> k + 1,
                 late |-> IF conf /\ ~ok THEN FALSE ELSE SessionDone,
                 dropped |-> claims[tp].dropped]]
          /\ marked' = IF ShouldMark(conf, ok)
                       THEN [marked EXCEPT ![tp] = k + 1] ELSE marked
    /\ UNCHANGED <<backend, configured, prod, recv, kvars, mpc, dpc, ctxDone,
                   readyClosed, awaited, sessEnded, released>>

\* ConsumeClaim after a processor error: if conf.FailedProcessingTopic != ""
\* { select ... }; continue
ClaimFailed(tp) ==
    /\ backend = "sarama" /\ Alive
    /\ claims[tp].pc = "failed"
    /\ \E out \in ForwardOutcomes(tp[1], recv) :
          /\ recv' = IF out = "sent"
                     THEN [waiting |-> FALSE,
                           got |-> <<newFailedMessage(tp[1], tp[2],
                                        claims[tp].pos - 1,
                                        FailedProcessingTopic(tp[1]))>>]
                     ELSE recv
          /\ claims' = [claims EXCEPT ![tp].pc = "select",
                                       ![tp].late = SessionDone,
                                       ![tp].dropped = @ \/ out # "sent"]
    /\ UNCHANGED <<backend, configured, prod, kvars, mpc, dpc, ctxDone,
                   readyClosed, awaited, sessEnded, marked, released>>

\* ConsumeClaim: case <-session.Context().Done(): return nil
ClaimReturn(tp) ==
    /\ backend = "sarama" /\ Alive
    /\ claims[tp].pc = "select"
    /\ SessionDone
    /\ claims' = [claims EXCEPT ![tp] = [pc |-> "none", pos |-> 0, late |-> FALSE, dropped |-> FALSE]]
    /\ UNCHANGED <<backend, configured, prod, recv, kvars, mpc, dpc, ctxDone, readyClosed,
                   awaited, sessEnded, marked, released>>

\* ConsumeClaim: case msg := <-claim.Messages() on a closed channel. The
\* group closes the channel of a claim once the session is done; a select
\* entered after that finds both cases ready and may take this one: msg is
\* nil and msg.Topic panics.
ClaimNilMessage(tp) ==
    /\ backend = "sarama" /\ Alive
    /\ claims[tp].pc = "select"
    /\ claims[tp].late
    /\ claims' = [claims EXCEPT ![tp].pc = "panicked"]
    /\ UNCHANGED <<backend, configured, prod, recv, kvars, mpc, dpc, ctxDone, readyClosed,
                   awaited, sessEnded, marked, released>>

\* c.group.Consume returns (with or without an error, which is logged and
\* slept on): the session is done and every ConsumeClaim has returned
\* (Cleanup runs then).
DriverConsumeReturn ==
    /\ backend = "sarama" /\ Alive
    /\ dpc = "session"
    /\ SessionDone
    /\ \A tp \in Partitions : claims[tp].pc = "none"
    /\ dpc' = "check"
    /\ UNCHANGED <<backend, configured, prod, recv, kvars, mpc, ctxDone, readyClosed, awaited,
                   sessEnded, claims, marked, released>>

\* Mutant of RemadeReady: the driver keeps the channel it has.
KeptReady(closed) == closed

\* c.ready = make(chan bool): is the channel c.ready refers to closed,
\* after the assignment? It is a new one, open.
RemadeReady(closed) == FALSE

\* if c.ctx.Err() != nil { return } (and the deferred wg.Done());
\* otherwise c.ready = make(chan bool) and the next iteration.
DriverCheck ==
    /\ backend = "sarama" /\ Alive
    /\ dpc = "check"
    /\ IF ctxDone
       THEN /\ dpc' = "done"
            /\ UNCHANGED <<readyClosed, awaited>>
       ELSE /\ dpc' = "consume"
            /\ readyClosed' = RemadeReady(readyClosed)
            /\ awaited' = IF awaited = "current"
                          THEN (IF readyClosed THEN "staleClosed" ELSE "staleOpen")
                          ELSE awaited
    /\ UNCHANGED <<backend, configured, prod, recv, kvars, mpc, ctxDone, sessEnded, claims,
                   marked, released>>

SaramaNext ==
    \/ ExternalCancel
    \/ SaramaStart
    \/ SaramaEvalReady
    \/ SaramaAwaitReady
    \/ SaramaAwaitDone
    \/ SaramaWgWait
    \/ \E ok \in BOOLEAN : SaramaClose(ok)
    \/ DriverConsumeFail
    \/ DriverConsumeSetup
    \/ SessionEnd
    \/ \E tp \in Partitions, ok \in BOOLEAN : ClaimMessage(tp, ok)
    \/ \E tp \in Partitions : ClaimFailed(tp)
    \/ \E tp \in Partitions : ClaimReturn(tp)
    \/ \E tp \in Partitions : ClaimNilMessage(tp)
    \/ DriverConsumeReturn
    \/ DriverCheck

\* -------------------------------------------------------- saramaProducer

\* The shapes of the payload (msg interface{}) handed to produceMessage.
PayloadShapes ==
    {"string", "bytes", "int32", "int64", "float32", "float64", "struct",
     "pointer", "func", "nil"}

\* The producer before newSaramaProducer: the requested prodType, the
\* dynamic type of p.producer, the goroutine of handleAsyncResponses, and
\* the latest produceMessage call with its outcome.
NewProducer(mode) ==
    [pc |-> "new", mode |-> mode, producer |-> "nil", handler |-> "none",
     last |-> << >>]

ProducerInit ==
    prod \in IF backend = "producer"
             THEN {NewProducer(m) : m \in {"sync", "async", "invalid"}}
             ELSE {NewProducer("invalid")}

\* switch prodType: the producer newSaramaProducer builds (created: the
\* sarama constructor succeeded), or "nil" with an error.
BuiltProducer(mode, created) ==
    IF mode \in {"sync", "async"} /\ created THEN mode ELSE "nil"

\* After `if e != nil { ...; return }`: go p.handleAsyncResponses(), for
\* whatever producer was built.
HandlerAfterNew(producer) ==
    IF producer = "nil" THEN "none" ELSE "started"

\* newSaramaProducer
NewSaramaProducer(created) ==
    /\ backend = "producer"
    /\ prod.pc = "new"
    /\ LET built == BuiltProducer(prod.mode, created)
       IN prod' = [prod EXCEPT !.producer = built,
                               !.handler = HandlerAfterNew(built),
                               !.pc = IF built = "nil" THEN "failed" ELSE "ready"]
    /\ UNCHANGED <<backend, configured, recv, kvars, svars>>

\* handleAsyncResponses enters its select: both channel expressions assert
\* p.producer.(sarama.AsyncProducer), which panics for a producer of
\* another type; an async producer's channels are then received from.
HandleAsyncResponses ==
    /\ backend = "producer"
    /\ prod.handler = "started"
    /\ prod' = [prod EXCEPT !.handler =
                   IF prod.producer = "async" THEN "receiving" ELSE "panicked"]
    /\ UNCHANGED <<backend, configured, recv, kvars, svars>>

\* Mutant of getSaramaEncoder: a payload of any other shape is encoded as
\* text.
getSaramaEncoderAny(codec, shape, encoded) ==
    IF ~codec
    THEN [s |-> "nil", e |-> "nil"]
    ELSE IF shape = "bytes" THEN [s |-> "saramaByteEncoder", e |-> "nil"]
    ELSE IF shape = "struct"
         THEN (IF encoded THEN [s |-> "saramaStructEncoder", e |-> "nil"]
                          ELSE [s |-> "nil", e |-> "errEncode"])
    ELSE [s |-> "StringEncoder", e |-> "nil"]

\* getSaramaEncoder(ctx, topicConf, msg): the encoder s and the error e it
\* returns. codec: topicConf.messageCodec is not nil; encoded:
\* newSaramaStructEncoder succeeds. With a nil codec the error is logged and
\* the function returns its named results as they are: nil, nil.
getSaramaEncoder(codec, shape, encoded) ==
    IF ~codec
    THEN [s |-> "nil", e |-> "nil"]
    ELSE IF shape = "string" THEN [s |-> "StringEncoder", e |-> "nil"]
    ELSE IF shape = "bytes" THEN [s |-> "saramaByteEncoder", e |-> "nil"]
    ELSE IF shape \in {"int32", "int64", "float32", "float64"}
         THEN [s |-> "StringEncoder", e |-> "nil"]
    ELSE IF shape = "struct"
         THEN (IF encoded THEN [s |-> "saramaStructEncoder", e |-> "nil"]
                          ELSE [s |-> "nil", e |-> "errEncode"])
    ELSE [s |-> "nil", e |-> "errMessageType"]

\* switch p.producer.(type): the broker call produceMessage makes.
BrokerCall(producer) ==
    IF producer = "sync" THEN "SendMessage"
    ELSE IF producer = "async" THEN "Input"
    ELSE "none"

\* produceMessage(ctx, topic, key, msg) on an initialized producer. sent:
\* the SyncProducer's SendMessage succeeds.
ProduceMessage(topic, shape, encoded, sent) ==
    /\ backend = "producer"
    /\ prod.pc = "ready"
    /\ prod.handler # "panicked"
    /\ LET se == getSaramaEncoder(TopicConfigured(topic), shape, encoded)
           call == IF se.e # "nil" THEN "none" ELSE BrokerCall(prod.producer)
           err == IF se.e # "nil" THEN se.e
                  ELSE IF call = "SendMessage" /\ ~sent THEN "errSend"
                  ELSE IF call = "none" THEN "errInvalidProducer"
                  ELSE "nil"
       IN prod' = [prod EXCEPT !.last =
                      <<[topic |-> topic, shape |-> shape, value |-> se.s,
                         e |-> err, call |-> call]>>]
    /\ UNCHANGED <<backend, configured, recv, kvars, svars>>

ProducerNext ==
    \/ \E created \in BOOLEAN : NewSaramaProducer(created)
    \/ HandleAsyncResponses
    \/ \E topic \in TopicSet, shape \in PayloadShapes, encoded, sent \in BOOLEAN :
          ProduceMessage(topic, shape, encoded, sent)

\* ------------------------------------------------------------ the system

Init ==
    /\ backend \in {"kafkago", "sarama", "producer"}
    /\ configured \in IF backend = "kafkago"
                      THEN {TopicSet} ELSE {TopicSet, {"orders"}}
    /\ recv \in {[waiting |-> w, got |-> << >>] : w \in BOOLEAN}
    /\ KafkaInit
    /\ SaramaInit
    /\ ProducerInit

Next ==
    \/ KafkaNext
    \/ SaramaNext
    \/ ProducerNext
    \/ ReceiverReady
    \/ ReceiverLeave

Spec == Init /\ [][Next]_vars

\* The session-based backend alone, with the scheduler's fairness: every
\* goroutine that can take a step eventually does, and a call into the
\* group returns. Nothing is assumed of the environment (the cancellation,
\* rebalances, the receiver of the failed messages).
SaramaFairInit == Init /\ backend = "sarama" /\ Alive

SaramaFairNext ==
    \/ SaramaNext
    \/ ReceiverReady
    \/ ReceiverLeave

\* A step of startConsume's own goroutine.
SaramaMainStep ==
    \/ SaramaStart
    \/ SaramaEvalReady
    \/ SaramaAwaitReady
    \/ SaramaAwaitDone
    \/ SaramaWgWait
    \/ \E ok \in BOOLEAN : SaramaClose(ok)

\* A step of the driver goroutine.
SaramaDriverStep ==
    \/ DriverConsumeFail
    \/ DriverConsumeSetup
    \/ DriverConsumeReturn
    \/ DriverCheck

SaramaFair ==
    /\ SaramaFairInit
    /\ [][SaramaFairNext]_vars
    /\ WF_vars(SaramaMainStep)
    /\ WF_vars(SaramaDriverStep)
    /\ \A tp \in Partitions :
          /\ WF_vars(ClaimReturn(tp))
          /\ WF_vars(ClaimFailed(tp))
          /\ WF_vars(\E ok \in BOOLEAN : ClaimMessage(tp, ok))

\* ------------------------------------------------------------ properties

\* C1: in the generation-based loop, after a processing failure of the
\* record at offset k the committed offset of the partition is k-1, and it
\* reaches k only once the record at k has been processed successfully:
\* while the latest record of a loop is a failed one, a commit that changes
\* the partition's committed offset sets it to k-1.
C1_CommittedStaysBehindFailedRecord ==
    [][\A tp \in Partitions : \A j \in 1..Len(loops[tp]) :
          (/\ loops[tp][j].fate = "rewound"
           /\ committed'[tp] # committed[tp])
          => committed'[tp] = loops[tp][j].offset - 1]_vars

\* C2: while every processor call and every commit of a loop has succeeded,
\* the offsets it has processed are strictly increasing, the committed
\* offset after the Nth message is the offset of the Nth message, and until
\* the Nth is committed it is the offset of the (N-1)th.
C2_CommittedIsNthOffset ==
    \A tp \in Partitions : \A j \in 1..Len(loops[tp]) :
       LET l == loops[tp][j]
           n == Len(l.okseq)
       IN (l.pc # "done" /\ ~l.dirty /\ n > 0) =>
             /\ \A a, b \in 1..n : a < b => l.okseq[a] < l.okseq[b]
             /\ l.pc = "read" => committed[tp] = l.okseq[n]
             /\ (l.pc = "commitCur" /\ n > 1) => committed[tp] = l.okseq[n - 1]

\* C2 witness: a loop has processed and committed two messages, all
\* successfully, and is about to read the third.
C2_Witness ==
    \E tp \in Partitions : \E j \in 1..Len(loops[tp]) :
       /\ loops[tp][j].pc = "read"
       /\ ~loops[tp][j].dirty
       /\ Len(loops[tp][j].okseq) = 2

\* C3: a processing failure never terminates the loop (from the failure to
\* its next read the loop does not return), and the next record the loop
\* reads after the failure of the record at k is the record at k again.
C3_FailedRecordIsReadAgain ==
    [][\A tp \in Partitions : \A j \in 1..Len(loops[tp]) :
          LET l == loops[tp][j] IN
          /\ (l.fate \in {"failed", "rewound"} /\ l.pc # "read") =>
                (j <= Len(loops'[tp]) /\ loops'[tp][j].pc # "done")
          /\ (/\ l.pc = "read" /\ l.fate = "rewound"
              /\ j <= Len(loops'[tp])
              /\ loops'[tp][j].pc \notin {"read", "done"})
             => loops'[tp][j].offset = l.offset]_vars

\* C3 witness: a loop that started at offset 0 is committing offset 0 after
\* processing it successfully, and has had a failure before: the record at
\* 0 failed, was read again and has now succeeded.
C3_Witness ==
    \E tp \in Partitions : \E j \in 1..Len(loops[tp]) :
       /\ loops[tp][j].pc = "commitCur"
       /\ loops[tp][j].fate = "ok"
       /\ loops[tp][j].dirty
       /\ loops[tp][j].offset = 0

\* C4: startConsume requests the next generation (is in group.Next) only
\* when every partition message loop has exited.
C4_NextOnlyAfterLoopsExit ==
    cpc = "next" => \A tp \in Partitions : RunningLoops(tp) = {}

\* C8: each commitOffset call makes at most two attempts: after a failed
\* first attempt a retry with the same offset is pending, a call that
\* returns after one attempt has committed its offset, there is no third
\* attempt, and after the second attempt, failed or not, the loop goes on.
C8_CommitRetriedOnce ==
    [][\A tp \in Partitions : \A j \in 1..Len(loops[tp]) :
          LET l == loops[tp][j]
              arg == IF l.pc = "commitPrev" THEN l.offset - 1 ELSE l.offset
              cont == IF l.pc = "commitPrev" THEN "commitCur" ELSE "read"
          IN (/\ l.pc \in {"commitPrev", "commitCur"}
              /\ j <= Len(loops'[tp])
              /\ loops'[tp][j] # l) =>
             LET m == loops'[tp][j] IN
             /\ Len(m.log) <= 1
             /\ (l.log = << >> /\ m.log # << >>) =>
                   /\ m.pc = l.pc
                   /\ m.log[1] = [topic |-> tp[1], partition |-> tp[2],
                                  offset |-> arg, ok |-> FALSE]
                   /\ committed' = committed
             /\ (l.log = << >> /\ m.log = << >>) =>
                   /\ m.pc = cont
                   /\ committed'[tp] = arg
             /\ l.log # << >> =>
                   /\ m.log = << >>
                   /\ m.pc = cont
                   /\ committed'[tp] \in {committed[tp], l.log[1].offset}
                   /\ l.log[1].offset = arg]_vars

\* C8 witness: a loop is back at its read after the commit of offset 1
\* failed twice (the message at 1 was processed, the committed offset is
\* not 1).
C8_Witness ==
    \E tp \in Partitions : \E j \in 1..Len(loops[tp]) :
       /\ loops[tp][j].pc = "read"
       /\ loops[tp][j].fate = "ok"
       /\ loops[tp][j].offset = 1
       /\ loops[tp][j].rpos = 2
       /\ committed[tp] # 1

\* C9: within a generation there is at most one loop per (topic,
\* partition), and once the fan-out of the generation is complete exactly
\* one was started for every assigned partition.
C9_OneLoopPerPartition ==
    /\ \A tp \in Partitions : Len(loops[tp]) <= 1
    /\ (gen = "latest" /\ cpc \in {"wait", "next"} /\ consumerWait = 0) =>
          \A t \in TopicSet : \A a \in 1..Len(assign[t]) :
             Len(loops[<<t, assign[t][a].ID>>]) = 1

\* C9 witness: the loops of both partitions are processing at once.
C9_Witness ==
    \A tp \in Partitions :
       \E j \in 1..Len(loops[tp]) : loops[tp][j].pc = "commitCur"

\* C5: once the session-based consumer's context is cancelled, startConsume
\* eventually returns (or ends the process on a failed close), in every
\* fair execution.
C5_ReturnsAfterCancel ==
    ctxDone ~> (mpc \in {"returned", "fatal"})

\* C6: a processing failure hands at most one FailedMessage to the
\* receiver of the failed-message channel, in both backends: the step that
\* handles the failure delivers exactly the failed record's message when
\* the topic has a dead-letter topic and the receiver is waiting, and
\* leaves the receiver untouched otherwise; and the receiver gets a message
\* by no other step.
C6_AtMostOneFailedMessage ==
    [][/\ \A tp \in Partitions : \A j \in 1..Len(loops[tp]) :
            (/\ loops[tp][j].pc = "failed"
             /\ j <= Len(loops'[tp])
             /\ loops'[tp][j].pc # "failed") =>
               recv' = IF FailedProcessingTopic(tp[1]) # "" /\ recv.waiting
                       THEN [waiting |-> FALSE,
                             got |-> <<[dest |-> FailedProcessingTopic(tp[1]),
                                        topic |-> tp[1], partition |-> tp[2],
                                        offset |-> loops[tp][j].offset]>>]
                       ELSE recv
       /\ \A tp \in Partitions :
            (claims[tp].pc = "failed" /\ claims'[tp].pc # "failed") =>
               recv' = IF FailedProcessingTopic(tp[1]) # "" /\ recv.waiting
                       THEN [waiting |-> FALSE,
                             got |-> <<[dest |-> FailedProcessingTopic(tp[1]),
                                        topic |-> tp[1], partition |-> tp[2],
                                        offset |-> claims[tp].pos - 1]>>]
                       ELSE recv
       /\ (recv'.got # << >> /\ recv' # recv) =>
             \/ \E tp \in Partitions : \E j \in 1..Len(loops[tp]) :
                   /\ loops[tp][j].pc = "failed"
                   /\ loops'[tp][j].pc # "failed"
             \/ \E tp \in Partitions :
                   /\ claims[tp].pc = "failed"
                   /\ claims'[tp].pc # "failed"]_vars

\* C6 witness: the record at offset 0 of "orders" failed, its message was
\* handed to the waiting receiver, and the loop is in the commit that
\* follows.
C6_Witness ==
    \E j \in 1..Len(loops[<<"orders", 0>>]) :
       /\ loops[<<"orders", 0>>][j].pc = "commitPrev"
       /\ loops[<<"orders", 0>>][j].offset = 0
       /\ recv = [waiting |-> FALSE,
                  got |-> <<newFailedMessage("orders", 0, 0, "orders-failed")>>]

C10_ShutdownOrder ==
    /\ released <= 1
    /\ released >= 1 => (ctxDone /\ dpc = "done")

\* C10 witness: startConsume has returned after releasing the group.
C10_Witness ==
    released = 1 /\ mpc = "returned"

\* C11: produceMessage for a topic whose configuration has no codec returns
\* an error to the caller and makes no broker call (no SendMessage, no
\* enqueue on the async input), for every payload shape.
C11_MissingCodecIsHardError ==
    \A i \in 1..Len(prod.last) :
       ~TopicConfigured(prod.last[i].topic) =>
          (prod.last[i].e # "nil" /\ prod.last[i].call = "none")

\* C15: produceMessage with a payload of an unsupported shape (not text,
\* raw bytes, int32/int64/float32/float64 or a struct value) on a topic with
\* a codec returns the "unsupported message type" error and makes no broker
\* call, in sync and in async mode.
C15_UnsupportedShapeRejected ==
    \A i \in 1..Len(prod.last) :
       (/\ TopicConfigured(prod.last[i].topic)
        /\ prod.last[i].shape \notin {"string", "bytes", "int32", "int64",
                                      "float32", "float64", "struct"})
       => (prod.last[i].e = "errMessageType" /\ prod.last[i].call = "none")

\* C15 witness: an async producer was handed a function value for
\* "orders", whose codec is configured.
C15_Witness ==
    /\ prod.producer = "async"
    /\ "orders" \in configured
    /\ Len(prod.last) = 1
    /\ prod.last[1].topic = "orders"
    /\ prod.last[1].shape = "func"

\* C19: the response-handling loop operates only on an asynchronous
\* producer: a goroutine of handleAsyncResponses exists only for an async
\* producer, and none is started when construction fails.
C19_HandlerOnlyForAsync ==
    /\ prod.handler # "none" => prod.producer = "async"
    /\ prod.pc = "failed" => prod.handler = "none"

\* C12: the generation-based coordinator has no terminal state and never
\* treats a coordination failure as fatal. In every state startConsume can
\* take its next step as soon as what it waits for (the group, the sleep,
\* the consumeTopic goroutines) allows; a failed group.Next starts no
\* goroutine and no loop and leads to the sleep and then to group.Next
\* again; a successful one leads to the fan-out, the wait and then to
\* group.Next again.
C12_CoordinatorNeverStops ==
    [][backend = "kafkago" =>
        /\ cpc \in {"next", "backoff", "spawn", "wait"}
        /\ (cpc = "next" /\ LibNextReady) =>
              (ENABLED StartConsumeNext /\ ENABLED StartConsumeNextErr)
        /\ cpc = "backoff" => ENABLED StartConsumeBackoff
        /\ cpc = "spawn" => ENABLED StartConsumeSpawn
        /\ cpc = "wait" =>
              \/ ENABLED StartConsumeWait
              \/ \E n \in 1..Len(topicNames) :
                    ENABLED ConsumeTopicStart(n) \/ ENABLED ConsumeTopicDone(n)
        /\ (cpc = "next" /\ cpc' # "next") =>
              \/ cpc' = "backoff" /\ gen' = "nil" /\ loops' = loops /\ tpc' = tpc
              \/ cpc' = "spawn" /\ gen' = "latest"
        /\ (cpc = "backoff" /\ cpc' # "backoff") =>
              (cpc' = "next" /\ loops' = loops /\ tpc' = tpc)
        /\ (cpc = "spawn" /\ cpc' # "spawn") => cpc' = "wait"
        /\ (cpc = "wait" /\ cpc' # "wait") => cpc' = "next"]_vars

\* C12 witness: a generation ran (its loop committed offset 1 of "orders"),
\* the group.Next after it failed, and startConsume is in its sleep.
C12_Witness ==
    /\ cpc = "backoff"
    /\ gen = "nil"
    /\ committed[<<"orders", 0>>] = 1

\* C13: once the per-session context is done, every running ConsumeClaim
\* eventually returns (its only return statement is `return nil`), whatever
\* happened to the earlier messages of the session.
C13_ClaimReturnsNil ==
    \A tp \in Partitions :
       (claims[tp].pc \in {"select", "failed"} /\ SessionDone)
          ~> (claims[tp].pc = "none")

\* C14: a read error terminates the partition's loop immediately: the step
\* in which a read of the loop does not deliver a record ends the loop,
\* without a message to the fail handler and without a commit, and leaves
\* the loops of the other partitions as they are; a loop that has returned
\* does nothing more.
C14_ReadErrorEndsLoop ==
    [][\A tp \in Partitions : \A j \in 1..Len(loops[tp]) :
          LET l == loops[tp][j] IN
          /\ (/\ l.pc = "read"
              /\ j <= Len(loops'[tp])
              /\ loops'[tp][j] # l
              /\ ~(loops'[tp][j].offset = l.rpos /\ loops'[tp][j].rpos = l.rpos + 1))
             => /\ loops'[tp][j].pc = "done"
                /\ recv' = recv
                /\ committed' = committed
                /\ \A other \in Partitions \ {tp} : loops'[other] = loops[other]
          /\ (l.pc = "done" /\ j <= Len(loops'[tp])) => loops'[tp][j] = l]_vars

\* C14 witness: the loop of "orders" has returned on a read error while
\* the loop of "audit", of the same generation, is handling a message.
C14_Witness ==
    /\ Len(loops[<<"orders", 0>>]) = 1
    /\ loops[<<"orders", 0>>][1].pc = "done"
    /\ loops[<<"orders", 0>>][1].acct
    /\ Len(loops[<<"audit", 0>>]) = 1
    /\ loops[<<"audit", 0>>][1].pc = "failed"

\* C16: in the session-based backend a message whose processing failed is
\* never silently lost: once a message of a claim has failed without being
\* handed to the fail handler, no mark of that claim moves the partition's
\* acknowledged position (every later mark is for a higher offset).
C16_FailedMessageNotSkipped ==
    [][\A tp \in Partitions :
          claims[tp].dropped => marked'[tp] = marked[tp]]_vars

\* C17: each Setup closes a readiness channel that is still open, and the
\* channel c.ready refers to stays closed for the whole session: readiness
\* is signalled once per session and no closed channel is closed again.
C17_SetupClosesOpenChannel ==
    [][/\ (dpc = "consume" /\ dpc' = "session") => (~readyClosed /\ readyClosed')
       /\ (dpc = "session" /\ dpc' = "session") => (readyClosed /\ readyClosed')]_vars

\* C17 witness: a second session is set up: the channel startConsume
\* evaluated was closed by an earlier Setup and replaced by the driver, and
\* the Setup of the running session has closed the new one.
C17_Witness ==
    /\ dpc = "session"
    /\ readyClosed
    /\ awaited = "staleClosed"

\* C18: in ConsumeClaim a message is marked if and only if its topic is
\* configured and the processor returned no error for it; the marks of a
\* claim are issued in the arrival order of the messages; each message of a
\* claim is taken once, so it gets at most one processor call and at most
\* one mark.
C18_MarkedIffProcessed ==
    [][\A tp \in Partitions :
          LET c == claims[tp]
              d == claims'[tp]
              taken == c.pc = "select" /\ d.pc # "none" /\ d.pos = c.pos + 1
          IN /\ marked'[tp] # marked[tp] =>
                   /\ taken
                   /\ marked'[tp] = c.pos + 1
                   /\ marked'[tp] > marked[tp]
             /\ taken =>
                   (marked'[tp] # marked[tp]
                       <=> (TopicConfigured(tp[1]) /\ d.pc = "select"))
             /\ (c.pc # "none" /\ d.pc # "none" /\ d.pos # c.pos) => taken]_vars

\* C18 witness: both messages of "orders" were processed and marked, in
\* order, while the two of "audit", which has no configuration, were taken
\* and left unmarked.
C18_Witness ==
    /\ "audit" \notin configured
    /\ marked[<<"orders", 0>>] = 2
    /\ claims[<<"orders", 0>>].pos = 2
    /\ marked[<<"audit", 0>>] = 0
    /\ claims[<<"audit", 0>>].pos = 2

====
